---- MODULE Spec2Model ----
(***************************************************************************)
(* Airport Ranger (src/airport_Search.py): a Streamlit page that, on the   *)
(* press of "Start searching...", resolves a speed, computes a range,      *)
(* loads data/airports.csv, selects the airports inside a buffer around    *)
(* the reference airport and renders their count and a map.                *)
(*                                                                         *)
(* Numbers.  Python computes in floats; the model computes the same        *)
(* expressions over exact rationals (sign, numerator, denominator), the    *)
(* numerator and denominator being naturals of arbitrary size held as      *)
(* little-endian sequences of base-10^4 limbs, because products such as    *)
(* mach * 666.738661 * ftime do not fit TLC's 32-bit integers.             *)
(***************************************************************************)
EXTENDS Integers, Sequences, FiniteSets, TLC

(***************************************************************************)
(* Arbitrary-size naturals.                                                *)
(***************************************************************************)
LimbBase == 10^4

Abs(i) == IF i < 0 THEN 0 - i ELSE i

RECURSIVE BigOfNat(_)
BigOfNat(n) ==
    IF n = 0 THEN <<>> ELSE <<n % LimbBase>> \o BigOfNat(n \div LimbBase)

RECURSIVE BigAddC(_, _, _)
BigAddC(a, b, c) ==
    IF a = <<>> /\ b = <<>>
    THEN (IF c = 0 THEN <<>> ELSE <<c>>)
    ELSE LET x == IF a = <<>> THEN 0 ELSE Head(a)
             y == IF b = <<>> THEN 0 ELSE Head(b)
             s == x + y + c
         IN  <<s % LimbBase>> \o BigAddC(IF a = <<>> THEN <<>> ELSE Tail(a),
                                         IF b = <<>> THEN <<>> ELSE Tail(b),
                                         s \div LimbBase)

BigAdd(a, b) == BigAddC(a, b, 0)

\* a * k + c for one limb k > 0
RECURSIVE BigScale(_, _, _)
BigScale(a, k, c) ==
    IF a = <<>>
    THEN BigOfNat(c)
    ELSE LET s == Head(a) * k + c
         IN  <<s % LimbBase>> \o BigScale(Tail(a), k, s \div LimbBase)

BigShift(a) == IF a = <<>> THEN <<>> ELSE <<0>> \o a

RECURSIVE BigMul(_, _)
BigMul(a, b) ==
    IF a = <<>> \/ b = <<>>
    THEN <<>>
    ELSE BigAdd(IF Head(a) = 0 THEN <<>> ELSE BigScale(b, Head(a), 0),
                BigShift(BigMul(Tail(a), b)))

\* a <= b, most significant limb first
RECURSIVE BigLeqFrom(_, _, _)
BigLeqFrom(a, b, i) ==
    IF i = 0 THEN TRUE
    ELSE IF a[i] # b[i] THEN a[i] < b[i]
    ELSE BigLeqFrom(a, b, i - 1)

BigLeq(a, b) ==
    IF Len(a) # Len(b) THEN Len(a) < Len(b) ELSE BigLeqFrom(a, b, Len(a))

(***************************************************************************)
(* Exact rationals: the values of Python's float expressions.              *)
(***************************************************************************)
QInt(i) == [neg |-> i < 0, num |-> BigOfNat(Abs(i)), den |-> <<1>>]

QFrac(i, k) == [neg |-> i < 0, num |-> BigOfNat(Abs(i)), den |-> BigOfNat(k)]

QIsZero(a) == a.num = <<>>

QMul(a, b) ==
    [neg |-> (a.neg # b.neg) /\ ~QIsZero(a) /\ ~QIsZero(b),
     num |-> BigMul(a.num, b.num),
     den |-> BigMul(a.den, b.den)]

\* a / k for an integer k > 0
QDivInt(a, k) == [a EXCEPT !.den = BigMul(a.den, BigOfNat(k))]

QEq(a, b) ==
    /\ a.neg = b.neg
    /\ BigMul(a.num, b.den) = BigMul(b.num, a.den)

QLeq(a, b) ==
    IF a.neg /\ ~b.neg THEN TRUE
    ELSE IF ~a.neg /\ b.neg THEN FALSE
    ELSE IF a.neg
         THEN BigLeq(BigMul(b.num, a.den), BigMul(a.num, b.den))
         ELSE BigLeq(BigMul(a.num, b.den), BigMul(b.num, a.den))

QLess(a, b) == ~QLeq(b, a)

QZero == QInt(0)

QIsNeg(a) == a.neg

(***************************************************************************)
(* calculate_speed (lines 14-18).  speed_kts is the integer of the knots   *)
(* widget; speed_mach is the Mach widget's value in hundredths (the        *)
(* widget's step is 0.01).                                                 *)
(***************************************************************************)
MachToKnots == QFrac(666738661, 10^6)

MachValue(speed_mach) == QFrac(speed_mach, 100)

\* the Mach number taking precedence over the knots
calculate_speed_mach_first(speed_kts, speed_mach) ==
    IF speed_mach = 0
    THEN QInt(speed_kts)
    ELSE QMul(MachValue(speed_mach), MachToKnots)

calculate_speed(speed_kts, speed_mach) ==
    IF speed_kts = 0
    THEN QMul(MachValue(speed_mach), MachToKnots)
    ELSE QInt(speed_kts)

(***************************************************************************)
(* The range computation of main (lines 121-122):                          *)
(*     ftime_hr = ftime / 60 ; distance = speed * ftime_hr                 *)
(***************************************************************************)
\* the minutes taken for hours
compute_distance_hours(speed_knots, duration_minutes) ==
    QMul(speed_knots, QInt(duration_minutes))

compute_distance(speed_knots, duration_minutes) ==
    LET ftime_hr == QFrac(duration_minutes, 60)
    IN  QMul(speed_knots, ftime_hr)

(***************************************************************************)
(* Text.  An identifier is a sequence of one-character strings, so that    *)
(* str.upper() (line 90) is a computation on it.                           *)
(***************************************************************************)
UpperChar(c) ==
    CASE c = "a" -> "A"
      [] c = "b" -> "B"
      [] c = "h" -> "H"
      [] c = "z" -> "Z"
      [] OTHER   -> c

Upper(text) == [i \in 1..Len(text) |-> UpperChar(text[i])]

(***************************************************************************)
(* The dataset on disk: data/airports.csv.                                 *)
(***************************************************************************)
OptionalColumns == {"municipality", "wikipedia_link", "keywords"}

AccessedColumns == {"ident", "type", "name", "longitude_deg", "latitude_deg"}

AllColumns == AccessedColumns \cup OptionalColumns

ExcludedTypes == {"heliport", "closed", "seaplane_base", "balloonport"}

StrCell(t) == [kind |-> "str", text |-> t]
BytesCell(t) == [kind |-> "bytes", text |-> t]
NanCell == [kind |-> "nan", text |-> ""]

Row(id, nm, ty, lon, lat) ==
    [ident |-> id, name |-> nm, type |-> ty,
     longitude_deg |-> lon, latitude_deg |-> lat]

\* The rows a file on disk is made of, in file order.
Pool ==
    << Row(<<"A">>, StrCell("Alpha"),   "small_airport",  0, 0),
       Row(<<"B">>, StrCell("Bravo"),   "small_airport",  1, 0),
       Row(<<"C">>, NanCell,            "small_airport", 10, 0),
       Row(<<"B">>, StrCell("Bravo 2"), "large_airport",  6, 8),
       Row(<<"D">>, BytesCell("Delta"), "medium_airport", 3, 5),
       Row(<<"H">>, StrCell("Heli"),    "heliport",       1, 0),
       Row(<<"X">>, StrCell("Xray"),    "closed",         0, 0),
       Row(<<"S">>, StrCell("Sea"),     "seaplane_base",  1, 0),
       Row(<<"Q">>, StrCell("Balloon"), "balloonport",    6, 8) >>

MaxRows == 3

\* The rows of Pool at the positions in S, in file order.
RECURSIVE PickRows(_, _)
PickRows(i, S) ==
    IF i > Len(Pool) THEN <<>>
    ELSE (IF i \in S THEN <<Pool[i]>> ELSE <<>>) \o PickRows(i + 1, S)

CsvFile(rd, cols, rws) == [readable |-> rd, columns |-> cols, rows |-> rws]

GeneratedFiles ==
    { CsvFile(TRUE, AllColumns, PickRows(1, S)) :
        S \in { T \in SUBSET (1..Len(Pool)) : Cardinality(T) <= MaxRows } }

\* Files whose header lacks columns, and an unreadable one.
VariantRows == PickRows(1, {1, 2, 6})

VariantFiles ==
    { CsvFile(TRUE, AllColumns \ D, VariantRows) :
        D \in { {"keywords"}, OptionalColumns, {"type"}, {"name"},
                {"latitude_deg"}, {"ident"} } }
    \cup { CsvFile(FALSE, AllColumns, VariantRows) }

Files == GeneratedFiles \cup VariantFiles

(***************************************************************************)
(* load_and_prepare_data (lines 21-47).                                    *)
(***************************************************************************)
None == [none |-> TRUE]

Raise(e) == [exc |-> e, value |-> None]

Return(v) == [exc |-> "none", value |-> v]

\* one of the four categories left in
DropType_but_balloonport(rows, t) ==
    LET Keep(r) == r.type # t \/ t = "balloonport" IN SelectSeq(rows, Keep)

\* df.drop(df[df['type'] == t].index, inplace=True)
DropType(rows, t) ==
    LET Keep(r) == r.type # t IN SelectSeq(rows, Keep)

\* df['name'].astype(str)
AsStr(cell) ==
    CASE cell.kind = "str"   -> cell.text
      [] cell.kind = "bytes" -> "b'" \o cell.text \o "'"
      [] cell.kind = "nan"   -> "nan"

\* gpd.points_from_xy(df['longitude_deg'], df['latitude_deg'])
Point(lon, lat) == [x |-> lon, y |-> lat]

PrepareRow(r) ==
    [ident |-> r.ident, name |-> AsStr(r.name), type |-> r.type,
     longitude_deg |-> r.longitude_deg, latitude_deg |-> r.latitude_deg,
     geometry |-> Point(r.longitude_deg, r.latitude_deg)]

load_and_prepare_data(f) ==
    IF ~f.readable THEN Raise("DataSourceError")             \* line 23
    \* line 26: df.dropna() returns a new frame that is discarded
    ELSE IF "type" \notin f.columns THEN Raise("KeyError")   \* line 27
    ELSE LET kept == DropType(DropType(DropType(DropType(f.rows,
                         "heliport"), "closed"), "seaplane_base"), "balloonport")
         IN  IF ~(OptionalColumns \subseteq f.columns)
             THEN Raise("KeyError")                          \* line 31
             ELSE IF "name" \notin f.columns
             THEN Raise("KeyError")                          \* line 34
             ELSE IF ~({"longitude_deg", "latitude_deg"} \subseteq f.columns)
             THEN Raise("KeyError")                          \* line 47
             ELSE Return([columns |-> (f.columns \ OptionalColumns)
                                        \cup {"geometry"},
                          rows |-> [i \in 1..Len(kept) |-> PrepareRow(kept[i])]])

(***************************************************************************)
(* find_airports_within_range (lines 50-55).                               *)
(*                                                                         *)
(* Point.buffer(radius) with the default 16 segments per quadrant is not a *)
(* disk: it is the regular 64-gon inscribed in the circle of that radius,  *)
(* with a vertex due east of the centre, and it is the empty polygon when  *)
(* radius <= 0.  A position p intersects it iff, for each of the 64 edges, *)
(* (p - centre) . n <= radius * cos(pi/64), n the edge's outward unit      *)
(* normal, at an odd multiple of pi/64.  The polygon is symmetric in both  *)
(* axes, so the test is made on (|dx|, |dy|) with the 16 normals of the    *)
(* first quadrant.  CosTable[k] = round(10^6 * cos((2k-1) * pi/64)).       *)
(***************************************************************************)
CosTable ==
    << 998795, 989177, 970031, 941544, 903989, 857729, 803208, 740951,
       671559, 595699, 514103, 427555, 336890, 242980, 146730,  49068 >>

SetMax(S) == CHOOSE m \in S : \A x \in S : x <= m

\* max over the edge normals n of (dx, dy) . n, scaled by 10^6
Support(dx, dy) ==
    SetMax({ Abs(dx) * CosTable[k] + Abs(dy) * CosTable[17 - k] : k \in 1..16 })

EmptyPolygon == [empty |-> TRUE, center |-> Point(0, 0), radius |-> QZero]

buffer(point, radius) ==
    IF QLeq(radius, QZero)
    THEN EmptyPolygon
    ELSE [empty |-> FALSE, center |-> point, radius |-> radius]

\* gdf.disjoint(circle) in place of gdf.intersects(circle)
Intersects_disjoint(point, polygon) ==
    \/ polygon.empty
    \/ ~BigLeq(BigMul(BigOfNat(Support(point.x - polygon.center.x,
                                       point.y - polygon.center.y)),
                      polygon.radius.den),
               BigMul(polygon.radius.num, BigOfNat(CosTable[1])))

Intersects(point, polygon) ==
    /\ ~polygon.empty
    /\ BigLeq(BigMul(BigOfNat(Support(point.x - polygon.center.x,
                                      point.y - polygon.center.y)),
                     polygon.radius.den),
              BigMul(polygon.radius.num, BigOfNat(CosTable[1])))

find_airports_within_range(gdf, icao, distance) ==
    IF "ident" \notin gdf.columns THEN Raise("KeyError")      \* line 52
    ELSE LET IsRef(r) == r.ident = icao
             matches  == SelectSeq(gdf.rows, IsRef)
         IN  IF matches = <<>> THEN Raise("IndexError")       \* .iloc[0]
             ELSE LET airport_location == matches[1].geometry
                      radius == QDivInt(distance, 60)
                      circle == buffer(airport_location, radius)
                      InCircle(r) == Intersects(r.geometry, circle)
                  IN  Return(SelectSeq(gdf.rows, InCircle))

(***************************************************************************)
(* plot_airports (lines 58-82): what st.plotly_chart is given.             *)
(***************************************************************************)
plot_airports(punkte_im_umkreis) ==
    [kind   |-> "map",
     points |-> [i \in 1..Len(punkte_im_umkreis) |->
                    [lat   |-> punkte_im_umkreis[i].geometry.y,
                     lon   |-> punkte_im_umkreis[i].geometry.x,
                     ident |-> punkte_im_umkreis[i].ident,
                     name  |-> punkte_im_umkreis[i].name,
                     type  |-> punkte_im_umkreis[i].type]]]

(***************************************************************************)
(* main (lines 85-129): one run of the page's script per button press.     *)
(* The page is written to as the run proceeds, so the run's position is    *)
(* state: an exception leaves on the page what was written before it.      *)
(***************************************************************************)
VARIABLES
    file,               \* data/airports.csv on disk
    icao, ftime, speed_kts, speed_mach,     \* the widgets' values
    pc,                 \* position of the run
    speed, distance, gdf, punkte_im_umkreis,    \* main's locals
    screen,             \* what the run has written to the page
    exc,                \* the exception that ended the run, or "none"
    steps               \* the calls the run has made, in order

vars == <<file, icao, ftime, speed_kts, speed_mach, pc, speed, distance,
          gdf, punkte_im_umkreis, screen, exc, steps>>

widgets == <<icao, ftime, speed_kts, speed_mach>>

locals == <<speed, distance, gdf, punkte_im_umkreis>>

\* What the user types and sets; the number widgets keep their ranges
\* (lines 91-93: 1..3680 minutes, 0..1000 knots, Mach 0.00..3.00).
TypedIcao == { <<"a">>, <<"B">>, <<"h">>, <<>> }

TypedFtime == {30, 60}

TypedKts == {0, 120, 350, 600}

TypedMach == {0, 100}

Idle == pc \in {"idle", "done", "failed"}

NoRun ==
    /\ pc = "idle"
    /\ icao = <<>> /\ ftime = 1 /\ speed_kts = 0 /\ speed_mach = 0
    /\ speed = None /\ distance = None /\ gdf = None
    /\ punkte_im_umkreis = None
    /\ screen = <<>> /\ exc = "none" /\ steps = <<>>

Init ==
    /\ file \in Files
    /\ NoRun

\* lines 90-93 and 119: the script reruns with the button pressed
Press(text, minutes, kts, mach) ==
    /\ Idle
    /\ icao' = Upper(text)
    /\ ftime' = minutes
    /\ speed_kts' = kts
    /\ speed_mach' = mach
    /\ speed' = None /\ distance' = None /\ gdf' = None
    /\ punkte_im_umkreis' = None
    /\ screen' = <<>> /\ exc' = "none" /\ steps' = <<>>
    /\ pc' = "speed"
    /\ UNCHANGED file

\* line 120
ResolveSpeed ==
    /\ pc = "speed"
    /\ speed' = calculate_speed(speed_kts, speed_mach)
    /\ steps' = Append(steps, "calculate_speed")
    /\ pc' = "range"
    /\ UNCHANGED <<file, widgets, distance, gdf, punkte_im_umkreis, screen, exc>>

\* lines 121-123
ComputeDistance ==
    /\ pc = "range"
    /\ distance' = compute_distance(speed, ftime)
    /\ screen' = Append(screen, [kind |-> "distance"])
    /\ steps' = Append(steps, "distance")
    /\ pc' = "load"
    /\ UNCHANGED <<file, widgets, speed, gdf, punkte_im_umkreis, exc>>

\* the load's exception swallowed, the run going on with an empty frame
LoadData_swallow ==
    /\ pc = "load"
    /\ LET out == load_and_prepare_data(file)
       IN  gdf' = IF out.exc = "none" THEN out.value
                  ELSE [columns |-> AccessedColumns, rows |-> <<>>]
    /\ pc' = "query"
    /\ steps' = Append(steps, "load_and_prepare_data")
    /\ UNCHANGED <<file, widgets, speed, distance, punkte_im_umkreis, exc, screen>>

\* line 126
LoadData ==
    /\ pc = "load"
    /\ LET out == load_and_prepare_data(file)
       IN  IF out.exc = "none"
           THEN /\ gdf' = out.value
                /\ pc' = "query"
                /\ UNCHANGED <<exc, screen>>
           ELSE /\ exc' = out.exc
                /\ pc' = "failed"
                /\ screen' = Append(screen, [kind |-> "exception"])
                /\ UNCHANGED gdf
    /\ steps' = Append(steps, "load_and_prepare_data")
    /\ UNCHANGED <<file, widgets, speed, distance, punkte_im_umkreis>>

\* line 127
FindAirports ==
    /\ pc = "query"
    /\ LET out == find_airports_within_range(gdf, icao, distance)
       IN  IF out.exc = "none"
           THEN /\ punkte_im_umkreis' = out.value
                /\ pc' = "count"
                /\ UNCHANGED <<exc, screen>>
           ELSE /\ exc' = out.exc
                /\ pc' = "failed"
                /\ screen' = Append(screen, [kind |-> "exception"])
                /\ UNCHANGED punkte_im_umkreis
    /\ steps' = Append(steps, "find_airports_within_range")
    /\ UNCHANGED <<file, widgets, speed, distance, gdf>>

\* line 128
RenderCount ==
    /\ pc = "count"
    /\ screen' = Append(screen, [kind |-> "count", n |-> Len(punkte_im_umkreis)])
    /\ steps' = Append(steps, "count")
    /\ pc' = "plot"
    /\ UNCHANGED <<file, widgets, locals, exc>>

\* line 129
PlotAirports ==
    /\ pc = "plot"
    /\ screen' = Append(screen, plot_airports(punkte_im_umkreis))
    /\ steps' = Append(steps, "plot_airports")
    /\ pc' = "done"
    /\ UNCHANGED <<file, widgets, locals, exc>>

\* The browser reloads the page: the script runs with the button not
\* pressed (line 119 is false) and the widgets at their defaults.
ReloadPage ==
    /\ Idle
    /\ pc # "idle"
    /\ icao' = <<>> /\ ftime' = 1 /\ speed_kts' = 0 /\ speed_mach' = 0
    /\ speed' = None /\ distance' = None /\ gdf' = None
    /\ punkte_im_umkreis' = None
    /\ screen' = <<>> /\ exc' = "none" /\ steps' = <<>>
    /\ pc' = "idle"
    /\ UNCHANGED file

\* data/airports.csv is replaced on disk by a newer one: a row of the pool
\* is added to it or removed from it.  (Modelled while no run's results are
\* on the page.)
PoolRows(f) == { i \in 1..Len(Pool) : \E j \in 1..Len(f.rows) : f.rows[j] = Pool[i] }

ReplaceDataset(i) ==
    /\ pc = "idle"
    /\ file \in GeneratedFiles
    /\ LET S == PoolRows(file)
           T == IF i \in S THEN S \ {i} ELSE S \cup {i}
       IN  /\ Cardinality(T) <= MaxRows
           /\ file' = CsvFile(TRUE, AllColumns, PickRows(1, T))
    /\ UNCHANGED <<widgets, pc, locals, screen, exc, steps>>

Next ==
    \/ \E text \in TypedIcao, minutes \in TypedFtime,
          kts \in TypedKts, mach \in TypedMach : Press(text, minutes, kts, mach)
    \/ ResolveSpeed
    \/ ComputeDistance
    \/ LoadData
    \/ FindAirports
    \/ RenderCount
    \/ PlotAirports
    \/ ReloadPage
    \/ \E i \in 1..Len(Pool) : ReplaceDataset(i)

Spec == Init /\ [][Next]_vars

(***************************************************************************)
(* The calculation components called on their own, with any integers as    *)
(* arguments (no widget in front of them): lines 120-122.                  *)
(***************************************************************************)
CalcKts == {-5, 0, 1, 120, 1000, 1001}

CalcMach == {-100, 0, 85, 100, 300}

CalcFtime == {-30, 0, 1, 30, 60}

InitCalc ==
    /\ file = CsvFile(TRUE, AllColumns, <<>>)
    /\ NoRun

CalcCall(kts, mach, minutes) ==
    /\ speed_kts' = kts
    /\ speed_mach' = mach
    /\ ftime' = minutes
    /\ speed' = calculate_speed(kts, mach)
    /\ distance' = compute_distance(calculate_speed(kts, mach), minutes)
    /\ steps' = <<"calculate_speed", "distance">>
    /\ exc' = "none"                \* neither component has a raise
    /\ pc' = "calc"
    /\ UNCHANGED <<file, icao, gdf, punkte_im_umkreis, screen>>

NextCalc ==
    \E kts \in CalcKts, mach \in CalcMach, minutes \in CalcFtime :
        CalcCall(kts, mach, minutes)

SpecCalc == InitCalc /\ [][NextCalc]_vars

(***************************************************************************)
(* Properties.                                                             *)
(***************************************************************************)
Range(seq) == { seq[i] : i \in 1..Len(seq) }

Last(seq) == seq[Len(seq)]

Loaded == pc \in {"query", "count", "plot", "done"}

Queried == pc \in {"count", "plot", "done"}

\* the rows of the loaded collection whose identifier is the reference's
RefMatches == LET IsRef(r) == r.ident = icao IN SelectSeq(gdf.rows, IsRef)

\* the run has just come out of find_airports_within_range
AfterFind == steps # <<>> /\ Last(steps) = "find_airports_within_range"

\* the run has just come out of load_and_prepare_data
AfterLoad == steps # <<>> /\ Last(steps) = "load_and_prepare_data"

\* C1: a reference identifier that matches no record of the loaded,
\* filtered dataset ends the query in ReferenceNotFoundError (not in an
\* empty result, not in a failed index access).
C1_ReferenceNotFound ==
    (AfterFind /\ "ident" \in gdf.columns /\ RefMatches = <<>>)
        => (pc = "failed" /\ exc = "ReferenceNotFoundError")

\* C2: for every reference present in the dataset and every distance >= 0,
\* zero included, the result holds the reference airport's own record.
C2_ReferenceIncluded ==
    (Queried /\ ~QIsNeg(distance))
        => RefMatches[1] \in Range(punkte_im_umkreis)

\* C3: the loaded collection holds no record of an excluded category and
\* every source record of any other category, in file order; so no result
\* of the query holds a record of an excluded category.
SourceFields(r) ==
    [ident |-> r.ident, type |-> r.type,
     longitude_deg |-> r.longitude_deg, latitude_deg |-> r.latitude_deg]

C3_ExcludedCategories ==
    /\ Loaded =>
         /\ \A r \in Range(gdf.rows) : r.type \notin ExcludedTypes
         /\ LET Wanted(r) == r.type \notin ExcludedTypes
                wanted == SelectSeq(file.rows, Wanted)
            IN  [i \in 1..Len(gdf.rows) |-> SourceFields(gdf.rows[i])]
                  = [i \in 1..Len(wanted) |-> SourceFields(wanted[i])]
    /\ Queried => \A r \in Range(punkte_im_umkreis) : r.type \notin ExcludedTypes

C3_Witness ==
    /\ pc = "done"
    /\ \E r \in Range(file.rows) : r.type = "heliport"
    /\ \E r \in Range(file.rows) : r.type = "small_airport"
    /\ Len(gdf.rows) < Len(file.rows)
    /\ punkte_im_umkreis # <<>>

\* C4: for speed_kts > 0 the resolved speed is speed_kts whatever the Mach
\* number; for speed_kts = 0 it is speed_mach * 666.738661.
C4_ResolveSpeed ==
    pc = "calc" =>
        /\ speed_kts > 0 => QEq(speed, QInt(speed_kts))
        /\ speed_kts = 0 =>
             QEq(speed, QMul(QFrac(speed_mach, 100), QFrac(666738661, 1000000)))

C4_Witness ==
    /\ pc = "calc" /\ speed_kts = 0 /\ speed_mach = 100
    /\ QEq(speed, QFrac(666738661, 1000000))

ProbeDistances ==
    { compute_distance(calculate_speed(k, m), f) :
        k \in TypedKts, m \in TypedMach, f \in TypedFtime }

C6_Monotone ==
    Queried =>
        \A d2 \in ProbeDistances :
            QLess(distance, d2) =>
                LET wider == find_airports_within_range(gdf, icao, d2)
                IN  /\ wider.exc = "none"
                    /\ Range(punkte_im_umkreis) \subseteq Range(wider.value)

C6_Witness ==
    /\ Queried
    /\ punkte_im_umkreis # <<>>
    /\ \E d2 \in ProbeDistances :
          /\ QLess(distance, d2)
          /\ Range(find_airports_within_range(gdf, icao, d2).value)
               # Range(punkte_im_umkreis)

\* C7: the result is exactly the records whose planar distance in degrees
\* from the reference position is at most distance / 60, the boundary
\* included, and the input collection is left as loaded.  (Stated for the
\* distances > 0; distance 0 is the case of C2.)
WithinDisk(point, center, radius) ==
    LET dx == point.x - center.x
        dy == point.y - center.y
    IN  BigLeq(BigMul(BigOfNat(dx * dx + dy * dy),
                      BigMul(radius.den, radius.den)),
               BigMul(radius.num, radius.num))

C7_ExactDisk ==
    (Queried /\ QLess(QZero, distance)) =>
        LET center == RefMatches[1].geometry
            radius == QDivInt(distance, 60)
            InDisk(r) == WithinDisk(r.geometry, center, radius)
        IN  /\ punkte_im_umkreis = SelectSeq(gdf.rows, InDisk)
            /\ gdf = load_and_prepare_data(file).value

\* C8: the calculation components never return a negative distance without
\* signalling: a speed or duration that is negative or outside the allowed
\* ranges ends in InvalidInputError.
InAllowedRanges ==
    /\ speed_kts \in 0..1000
    /\ speed_mach \in 0..300
    /\ ftime \in 1..3680

C8_InvalidInputSignalled ==
    pc = "calc" =>
        /\ ~InAllowedRanges => exc = "InvalidInputError"
        /\ exc = "none" => ~QIsNeg(distance)

\* C9: load succeeds on every readable source that has the identifier,
\* name, category, longitude and latitude columns, the optional descriptive
\* columns absent or not; it fails only when the source is unreadable or
\* one of those five columns is missing.
C9_LoadSucceeds ==
    (AfterLoad /\ file.readable /\ AccessedColumns \subseteq file.columns)
        => (pc = "query" /\ exc = "none")

\* C10: every invocation runs resolve speed, compute distance, load, query,
\* render count, render map in that order; it loads the dataset once, for
\* itself, from the file as it is, carrying nothing over from an earlier
\* invocation; a failure of the load or of the query ends it with neither
\* a count nor a map on the page.
RunOrder ==
    << "calculate_speed", "distance", "load_and_prepare_data",
       "find_airports_within_range", "count", "plot_airports" >>

Kinds(scr) == [i \in 1..Len(scr) |-> scr[i].kind]

C10_Pipeline ==
    /\ Len(steps) <= Len(RunOrder)
    /\ steps = SubSeq(RunOrder, 1, Len(steps))
    /\ pc = "speed" => (steps = <<>> /\ gdf = None /\ screen = <<>>)
    /\ pc = "load" => gdf = None
    /\ Loaded =>
         /\ Cardinality({ i \in 1..Len(steps) :
                            steps[i] = "load_and_prepare_data" }) = 1
         /\ load_and_prepare_data(file).exc = "none"
         /\ gdf = load_and_prepare_data(file).value
    /\ pc = "failed" =>
         /\ exc # "none"
         /\ Last(steps) \in {"load_and_prepare_data", "find_airports_within_range"}
         /\ Kinds(screen) = <<"distance", "exception">>
    /\ pc = "done" =>
         /\ steps = RunOrder
         /\ exc = "none"
         /\ Kinds(screen) = <<"distance", "count", "map">>
         /\ screen[2].n = Len(punkte_im_umkreis)

C10_Witness ==
    /\ pc = "failed"
    /\ exc = "KeyError"
    /\ Last(steps) = "load_and_prepare_data"
    /\ file.readable

====
